---- MODULE Spec2Model ----
(***************************************************************************)
(* Model of src/app.py, a three-screen Streamlit application (mission ->   *)
(* shop -> result).  Every user interaction with a displayed widget makes  *)
(* Streamlit run the whole script once more: the session-state defaults    *)
(* (lines 19-32) and then main() (lines 346-355), which dispatches on      *)
(* st.session_state.page.  A button returns True only in the run its click *)
(* started; the script never asks for a further run, so the widgets the    *)
(* user sees are those the last run rendered.                              *)
(*                                                                         *)
(* Strings of the source that are not ASCII are written in romanised form: *)
(* column names "pummyeong" (name), "gagyeok" (price), "imiji_url",        *)
(* "imiji_URL"; the three mission labels are "saving_10000",               *)
(* "balanced_20000", "plentiful_30000".  Python's None is the string       *)
(* "None".                                                                 *)
(***************************************************************************)
EXTENDS Integers, Sequences, FiniteSets, TLC

VARIABLES
    page,       \* st.session_state.page
    mission,    \* st.session_state.mission
    budget,     \* st.session_state.budget
    cart,       \* st.session_state.cart
    reason,     \* st.session_state.reason
    shown,      \* the page function the last script run rendered
    widgets,    \* the widgets the last script run rendered (what the user can touch)
    radio,      \* the radio widget's state (index into MissionLabels)
    ta_value,   \* the value= argument the displayed text_area was built with
    download,   \* png_bytes handed to the download button, or NoFile
    disk,       \* the submissions directory: file name -> image (see Tick)
    catalog,    \* products.csv
    now,        \* datetime.now(), in whole seconds
    event,      \* the widget interaction that started the last script run
    notices,    \* the st.warning / st.error / st.success boxes of the last run
    sessions    \* the sessions submitting side by side in one process
                \* (SpecSessions); none in the single-session specifications

vars == <<page, mission, budget, cart, reason, shown, widgets, radio,
          ta_value, download, disk, catalog, now, event, notices, sessions>>

\* ------------------------------------------------------------------ bounds

\* Sessions submitting side by side.
MaxSessions == 2

\* Longest cart the user actions build.
MaxCart == 2

\* Last second of the clock; submissions are named by the second.
MaxClock == 1

\* ------------------------------------------------------- configuration

None == "None"

NoFile == [width |-> 0, height |-> 0, lines |-> <<>>]

\* list(MISSIONS.keys()), in insertion order
MissionLabels == <<"saving_10000", "balanced_20000", "plentiful_30000">>

MISSIONS_wrong_amount ==
    [m \in {"saving_10000", "balanced_20000", "plentiful_30000"} |-> 10000]

MISSIONS_typo ==
    [m \in {"saving_10000", "balanced_20000", "plentiful_30000"} |->
        CASE m = "saving_10000" -> 10000
          [] m = "balanced_20000" -> 2000
          [] m = "plentiful_30000" -> 30000]

MISSIONS ==
    [m \in {"saving_10000", "balanced_20000", "plentiful_30000"} |->
        CASE m = "saving_10000" -> 10000
          [] m = "balanced_20000" -> 20000
          [] m = "plentiful_30000" -> 30000]

\* The texts a user types into the justification box: sequences of
\* characters, blank ones (empty, spaces and line breaks only) and others.
ReasonTexts ==
    << <<>>, <<" ", "\n">>, <<" ", "a">> >>

\* A justification of three paragraphs: one of two words that does not fit
\* on a display line, a blank one, and a short one.
LongReason ==
    [i \in 1..20 |-> "a"] \o <<" ">> \o [i \in 1..35 |-> "a"]
    \o <<"\n", " ", "\n", "b", " ">>

\* A price cell as pandas hands it to float(): a number, a text that is no
\* number, or NaN (an empty cell).
Num(n) == [kind |-> "num", val |-> n]
Text == [kind |-> "text", val |-> 0]
NaN == [kind |-> "nan", val |-> 0]

\* The products.csv files considered (a row maps column names to cells):
\* absent; a header and no rows; no price column under either spelling; no
\* name column under either spelling; the Korean header; the English header
\* with a price that is no number; a row with an empty price cell.
Catalogs ==
    { [exists |-> FALSE, columns |-> {}, rows |-> <<>>],
      [exists |-> TRUE, columns |-> {"name", "price"}, rows |-> <<>>],
      [exists |-> TRUE, columns |-> {"name", "image_url"},
       rows |-> << [name |-> "Apple", image_url |-> None] >>],
      [exists |-> TRUE, columns |-> {"gagyeok"},
       rows |-> << [gagyeok |-> Num(6000)] >>],
      [exists |-> TRUE, columns |-> {"pummyeong", "gagyeok", "imiji_url"},
       rows |-> << [pummyeong |-> "Apple", gagyeok |-> Num(6000),
                    imiji_url |-> "apple.png"],
                   [pummyeong |-> "Milk", gagyeok |-> Num(12000),
                    imiji_url |-> None] >>],
      [exists |-> TRUE, columns |-> {"name", "price"},
       rows |-> << [name |-> "Gum", price |-> Text],
                   [name |-> "Milk", price |-> Num(12000)] >>],
      [exists |-> TRUE, columns |-> {"name", "price"},
       rows |-> << [name |-> "Milk", price |-> Num(12000)],
                   [name |-> "Tofu", price |-> NaN] >>] }

\* ------------------------------------------------------- utility functions

load_products_sample_data(csv) ==
    IF csv.exists THEN [columns |-> csv.columns, rows |-> csv.rows]
    ELSE [columns |-> {"name", "price"},
          rows |-> << [name |-> "Apple", price |-> Num(6000)] >>]

\* load_products: the data frame read, or an empty one when the file is absent.
load_products(csv) ==
    IF csv.exists THEN [columns |-> csv.columns, rows |-> csv.rows]
    ELSE [columns |-> {}, rows |-> <<>>]

\* DataFrame.empty
df_empty(df) == df.columns = {} \/ df.rows = <<>>

\* get_column_name: the column to use, or "stop" where the script calls st.stop().
get_column_name(df, kor, eng) ==
    IF kor \in df.columns THEN kor
    ELSE IF eng \in df.columns THEN eng
    ELSE "stop"

\* The optional image column (lines 195-201).
image_column(df) ==
    IF "imiji_url" \in df.columns THEN "imiji_url"
    ELSE IF "imiji_URL" \in df.columns THEN "imiji_URL"
    ELSE IF "image_url" \in df.columns THEN "image_url"
    ELSE None

\* price_value of a row (lines 221-224): float(cell), 0 on ValueError.  float
\* of an empty cell is NaN and raises nothing.
price_value(cell) ==
    CASE cell.kind = "num" -> cell
      [] cell.kind = "text" -> Num(0)
      [] OTHER -> NaN

\* int(price_value) on line 225 raises for NaN, outside any try.
price_raises(cell) == price_value(cell).kind = "nan"

add_to_cart_no_duplicates(c, name, price, image_url) ==
    IF \E i \in 1..Len(c) : c[i].name = name THEN c
    ELSE Append(c, [name |-> name, price |-> price, image_url |-> image_url])

RECURSIVE total_so_far(_)
total_so_far(c) ==
    IF c = <<>> THEN 0 ELSE c[1].price + total_so_far(Tail(c))

add_to_cart_capped(c, name, price, image_url) ==
    IF total_so_far(c) + price > 10000 THEN c
    ELSE Append(c, [name |-> name, price |-> price, image_url |-> image_url])

\* add_to_cart: the cart after the append.
add_to_cart(c, name, price, image_url) ==
    Append(c, [name |-> name, price |-> price, image_url |-> image_url])

RECURSIVE calc_cart_total_skips_repeats(_)
calc_cart_total_skips_repeats(c) ==
    IF c = <<>> THEN 0
    ELSE LET n == Len(c)
             init == SubSeq(c, 1, n - 1)
         IN  IF \E i \in 1..(n - 1) : c[i].name = c[n].name
             THEN calc_cart_total_skips_repeats(init)
             ELSE calc_cart_total_skips_repeats(init) + c[n].price

\* calc_cart_total: sum() over the cart, from 0, left to right.
RECURSIVE calc_cart_total(_)
calc_cart_total(c) ==
    IF c = <<>> THEN 0
    ELSE calc_cart_total(SubSeq(c, 1, Len(c) - 1)) + c[Len(c)].price

\* str.isspace on one character of the texts considered.
IsSpace(ch) == ch \in {" ", "\n", "\t"}

\* str.strip: the text without its leading and trailing whitespace.
RECURSIVE lstrip(_)
lstrip(t) == IF t # <<>> /\ IsSpace(Head(t)) THEN lstrip(Tail(t)) ELSE t

RECURSIVE rstrip(_)
rstrip(t) ==
    IF t # <<>> /\ IsSpace(t[Len(t)]) THEN rstrip(SubSeq(t, 1, Len(t) - 1))
    ELSE t

strip(t) == rstrip(lstrip(t))

\* str.split("\n"): the paragraphs of a text; one more than its line breaks.
RECURSIVE split_lines(_)
split_lines(t) ==
    IF \A i \in 1..Len(t) : t[i] # "\n" THEN <<t>>
    ELSE LET k == CHOOSE i \in 1..Len(t) :
                     t[i] = "\n" /\ \A j \in 1..(i - 1) : t[j] # "\n"
         IN  <<SubSeq(t, 1, k - 1)>> \o split_lines(SubSeq(t, k + 1, Len(t)))

\* ---------------------------------------------------- submission renderer

margin == 40
line_height == 30
width == 800
wrap_width == 30

\* One display line: its kind and what it is formatted from.
Line(kind, name, n, chars) ==
    [kind |-> kind, name |-> name, n |-> n, chars |-> chars]

BlankLine == Line("blank", "", 0, <<>>)

item_lines_newest_first(c) ==
    [i \in 1..Len(c) |->
        Line("item", c[Len(c) + 1 - i].name, c[Len(c) + 1 - i].price, <<>>)]

\* One "- name (price)" line per cart item, in cart order (lines 105-106).
item_lines(c) == [i \in 1..Len(c) |-> Line("item", c[i].name, c[i].price, <<>>)]

\* textwrap.wrap(para, width=wrap_width) with the library's defaults, as
\* called on line 117.  Tabs are expanded to the next multiple of eight
\* columns and every whitespace character becomes a space.
RECURSIVE expandtabs(_, _)
expandtabs(t, col) ==
    IF t = <<>> THEN <<>>
    ELSE IF Head(t) = "\t"
         THEN [i \in 1..(8 - (col % 8)) |-> " "] \o expandtabs(Tail(t), 0)
         ELSE <<Head(t)>> \o expandtabs(Tail(t), col + 1)

replace_whitespace(t) == [i \in 1..Len(t) |-> IF IsSpace(t[i]) THEN " " ELSE t[i]]

munge_whitespace(t) == replace_whitespace(expandtabs(t, 0))

\* The chunks of a text: its words and the runs of whitespace between them.
first_chunk_len(t) ==
    CHOOSE i \in 1..Len(t) :
        /\ \A j \in 1..i : IsSpace(t[j]) = IsSpace(t[1])
        /\ i = Len(t) \/ IsSpace(t[i + 1]) # IsSpace(t[1])

RECURSIVE split_chunks(_)
split_after(t, k) ==
    <<SubSeq(t, 1, k)>> \o split_chunks(SubSeq(t, k + 1, Len(t)))

split_chunks(t) == IF t = <<>> THEN <<>> ELSE split_after(t, first_chunk_len(t))

RECURSIVE join(_)
join(chunks) == IF chunks = <<>> THEN <<>> ELSE Head(chunks) \o join(Tail(chunks))

\* The chunks that fit on the current line, and the chunks left over.
RECURSIVE fill_line(_, _)
fill_line(chunks, cur_line) ==
    IF chunks # <<>> /\ Len(join(cur_line)) + Len(Head(chunks)) <= wrap_width
    THEN fill_line(Tail(chunks), Append(cur_line, Head(chunks)))
    ELSE [cur_line |-> cur_line, chunks |-> chunks]

\* A chunk longer than a whole line is broken to fill the current line.
break_chunk(f, space_left) ==
    [cur_line |-> Append(f.cur_line, SubSeq(Head(f.chunks), 1, space_left)),
     chunks |-> <<SubSeq(Head(f.chunks), space_left + 1, Len(Head(f.chunks)))>>
                \o Tail(f.chunks)]

handle_long_word(f) ==
    IF f.chunks # <<>> /\ Len(Head(f.chunks)) > wrap_width
    THEN break_chunk(f, wrap_width - Len(join(f.cur_line)))
    ELSE f

\* Whitespace is dropped at the start of every line but the first and at
\* the end of every line; a line left empty is not produced.
drop_leading(chunks, lines) ==
    IF strip(Head(chunks)) = <<>> /\ lines # <<>> THEN Tail(chunks) ELSE chunks

drop_trailing(cur_line) ==
    IF cur_line # <<>> /\ strip(cur_line[Len(cur_line)]) = <<>>
    THEN SubSeq(cur_line, 1, Len(cur_line) - 1)
    ELSE cur_line

add_line(cur_line, lines) ==
    IF cur_line # <<>> THEN Append(lines, join(cur_line)) ELSE lines

RECURSIVE wrap_chunks(_, _)
next_line(f, lines) ==
    wrap_chunks(f.chunks, add_line(drop_trailing(f.cur_line), lines))

wrap_chunks(chunks, lines) ==
    IF chunks = <<>> THEN lines
    ELSE next_line(handle_long_word(fill_line(drop_leading(chunks, lines), <<>>)),
                   lines)

text_lines(wrapped) ==
    [i \in 1..Len(wrapped) |-> Line("text", "", 0, wrapped[i])]

textwrap_wrap(para) ==
    text_lines(wrap_chunks(split_chunks(munge_whitespace(para)), <<>>))

\* The justification lines (lines 113-118).
RECURSIVE reason_lines(_)
reason_lines(paras) ==
    IF paras = <<>> THEN <<>>
    ELSE (IF strip(Head(paras)) = <<>> THEN <<BlankLine>>
          ELSE textwrap_wrap(Head(paras)))
         \o reason_lines(Tail(paras))

\* The display lines, in order (lines 99-118).
submission_lines(m, b, c, reason_text) ==
    << Line("mission", m, 0, <<>>), Line("budget", "", b, <<>>), BlankLine,
       Line("items_header", "", 0, <<>>) >>
    \o (IF c # <<>> THEN item_lines(c)
        ELSE << Line("no_items", "", 0, <<>>) >>)
    \o << BlankLine, Line("reason_header", "", 0, <<>>) >>
    \o reason_lines(split_lines(reason_text))

\* The canvas sized for the lines, and the vertical offset each line is
\* drawn at (lines 120-135).
draw_text(lines) ==
    [width |-> width,
     height |-> margin * 2 + line_height * (Len(lines) + 3),
     lines |-> lines,
     ys |-> [i \in 1..Len(lines) |-> margin + line_height * (i - 1)]]

\* create_submission_png: the image and the path it is saved under, which
\* is the second of the clock (lines 89-144).
create_submission_png(m, b, c, reason_text, t) ==
    [filepath |-> t, img |-> draw_text(submission_lines(m, b, c, reason_text))]

\* --------------------------------------------------------------- widgets

W(kind) == [w |-> kind, arg |-> 0]

\* st.button("담기", key=f"add_{idx}"): idx is the row's index, from 0.
AddButton(idx) == [w |-> "add", arg |-> idx]

Notice(kind, amount) == [n |-> kind, amount |-> amount]

\* The session and what the browser shows, as one record.
World ==
    [page |-> page, mission |-> mission, budget |-> budget, cart |-> cart,
     reason |-> reason, shown |-> shown, widgets |-> widgets, radio |-> radio,
     ta_value |-> ta_value, download |-> download, disk |-> disk,
     notices |-> notices]

\* What a run that renders no radio, text area or download button leaves of them.
NoInputs(s) == [s EXCEPT !.radio = 1, !.ta_value = <<>>, !.download = NoFile]

\* ----------------------------------------------------------- screen 1

\* show_mission_page (lines 150-169).  The radio returns what the user chose,
\* index 0 when it was not on screen before.
show_mission_page_forgets_mission(s, ev) ==
    LET chosen == IF ev.w = "radio" THEN ev.arg ELSE s.radio
        clicked == ev.w = "confirm"
    IN  [s EXCEPT !.page = IF clicked THEN "shop" ELSE @,
                  !.shown = "mission",
                  !.widgets = {W("radio"), W("confirm")},
                  !.radio = chosen,
                  !.ta_value = <<>>,
                  !.download = NoFile,
                  !.notices = {}]

show_mission_page(s, ev) ==
    LET chosen == IF ev.w = "radio" THEN ev.arg ELSE s.radio
        m == MissionLabels[chosen]
        b == MISSIONS[m]
        clicked == ev.w = "confirm"
    IN  [s EXCEPT !.mission = IF clicked THEN m ELSE @,
                  !.budget = IF clicked THEN b ELSE @,
                  !.page = IF clicked THEN "shop" ELSE @,
                  !.shown = "mission",
                  !.widgets = {W("radio"), W("confirm")},
                  !.radio = chosen,
                  !.ta_value = <<>>,
                  !.download = NoFile,
                  !.notices = {}]

\* ----------------------------------------------------------- screen 2

mission_missing_never(s) == FALSE

\* `st.session_state.mission is None` (lines 179 and 279)
mission_missing(s) == s.mission = None

cart_is_empty_never(c) == FALSE

cart_is_empty_above_one(c) == Len(c) > 1

\* `not cart` (line 266)
cart_is_empty(c) == c = <<>>

cart_summary_signed(c, b) ==
    LET total == calc_cart_total(c)
        remaining == b - total
    IN  IF c # <<>>
        THEN (IF remaining >= 0 THEN {Notice("remaining", remaining)}
              ELSE {Notice("over_budget", remaining)})
        ELSE {}

\* The remaining-budget box under the cart table (lines 243-257, 293-306).
cart_summary(c, b) ==
    LET total == calc_cart_total(c)
        remaining == b - total
    IN  IF c # <<>>
        THEN (IF remaining >= 0 THEN {Notice("remaining", remaining)}
              ELSE {Notice("over_budget", -remaining)})
        ELSE {}

\* The product list and what follows it (lines 195-269), the columns found.
\* A row whose price is NaN raises on line 225: the rows before it are on
\* screen, nothing after it is.
shop_body(s, ev, df, name_col, price_col) ==
    LET image_col == image_column(df)
        n == Len(df.rows)
        raising == {i \in 1..n : price_raises(df.rows[i][price_col])}
        rendered == IF raising = {} THEN n
                    ELSE (CHOOSE i \in raising : \A j \in raising : i <= j) - 1
        added == ev.w = "add" /\ ev.arg + 1 <= rendered
        row == df.rows[ev.arg + 1]
        cart1 == IF added
                 THEN add_to_cart(s.cart, row[name_col],
                                  price_value(row[price_col]).val,
                                  IF image_col # None THEN row[image_col]
                                  ELSE None)
                 ELSE s.cart
        buttons == {AddButton(i - 1) : i \in 1..rendered}
        said == IF added THEN {Notice("added", 0)} ELSE {}
        back == ev.w = "back_mission"
        buy == ev.w = "proceed"
    IN  IF raising # {}
        THEN NoInputs([s EXCEPT !.cart = cart1,
                                !.shown = "shop",
                                !.widgets = buttons,
                                !.notices = said \cup {Notice("exception", 0)}])
        ELSE NoInputs([s EXCEPT
                 !.cart = cart1,
                 !.page = IF back THEN "mission"
                          ELSE IF buy /\ ~cart_is_empty(cart1) THEN "result"
                          ELSE @,
                 !.shown = "shop",
                 !.widgets = buttons \cup {W("back_mission"), W("proceed")},
                 !.notices = said \cup cart_summary(cart1, s.budget) \cup
                             (IF buy /\ cart_is_empty(cart1)
                              THEN {Notice("cart_empty", 0)} ELSE {})])

\* show_shop_page (lines 175-269).
show_shop_page(s, ev, csv) ==
    IF mission_missing(s)
    THEN NoInputs([s EXCEPT
             !.page = IF ev.w = "guard_shop" THEN "mission" ELSE @,
             !.shown = "shop",
             !.widgets = {W("guard_shop")},
             !.notices = {Notice("select_mission_first", 0)}])
    ELSE LET df == load_products(csv)
         IN  IF df_empty(df)
             THEN NoInputs([s EXCEPT
                      !.shown = "shop",
                      !.widgets = {},
                      !.notices = IF csv.exists THEN {}
                                  ELSE {Notice("file_not_found", 0)}])
             ELSE LET name_col == get_column_name(df, "pummyeong", "name")
                      price_col == get_column_name(df, "gagyeok", "price")
                  IN  IF name_col = "stop" \/ price_col = "stop"
                      THEN NoInputs([s EXCEPT
                               !.shown = "shop",
                               !.widgets = {},
                               !.notices = {Notice("missing_column", 0)}])
                      ELSE shop_body(s, ev, df, name_col, price_col)

\* ----------------------------------------------------------- screen 3

reason_is_blank_no_strip(r) == r = <<>>

\* `not st.session_state.reason.strip()` (line 322)
reason_is_blank(r) == strip(r) = <<>>

text_area_forgets(s, ev) ==
    IF ev.w = "text_area" THEN ReasonTexts[ev.arg] ELSE <<>>

\* st.text_area(value=st.session_state.reason) (lines 309-313).  The widget has
\* no key, so it is identified by its arguments: it returns what the user
\* typed only while value= is what the widget on screen was built with, and
\* otherwise it is a new widget that returns value=.
text_area(s, ev) ==
    IF ev.w = "text_area" /\ s.ta_value = s.reason THEN ReasonTexts[ev.arg]
    ELSE s.reason

\* show_result_page (lines 275-340); t is the clock.
show_result_page(s, ev, t) ==
    IF mission_missing(s)
    THEN NoInputs([s EXCEPT
             !.page = IF ev.w = "guard_result" THEN "mission" ELSE @,
             !.shown = "result",
             !.widgets = {W("guard_result")},
             !.notices = {Notice("select_mission_first", 0)}])
    ELSE LET typed == text_area(s, ev)
             back == ev.w = "back_shop"
             submit == ev.w = "submit"
             saved == submit /\ ~reason_is_blank(typed)
             sub == create_submission_png(s.mission, s.budget, s.cart, typed, t)
             disk1 == IF saved THEN [s.disk EXCEPT ![sub.filepath] = sub.img]
                      ELSE s.disk
         IN  [s EXCEPT
                 !.reason = typed,
                 !.ta_value = s.reason,
                 !.page = IF back THEN "shop" ELSE @,
                 !.disk = disk1,
                 !.download = IF saved THEN disk1[sub.filepath] ELSE NoFile,
                 !.shown = "result",
                 !.widgets = {W("text_area"), W("back_shop"), W("submit")} \cup
                             (IF saved THEN {W("download")} ELSE {}),
                 !.radio = 1,
                 !.notices = cart_summary(s.cart, s.budget) \cup
                             (IF submit /\ ~saved
                              THEN {Notice("reason_empty", 0)} ELSE {}) \cup
                             (IF saved THEN {Notice("submitted", 0)} ELSE {})]

\* ------------------------------------------------------------------ main

\* main (lines 346-355): one run of the script for the interaction ev.
main(s, ev, csv, t) ==
    CASE s.page = "mission" -> show_mission_page(s, ev)
      [] s.page = "shop" -> show_shop_page(s, ev, csv)
      [] s.page = "result" -> show_result_page(s, ev, t)
      [] OTHER -> show_mission_page([s EXCEPT !.page = "mission"], ev)

\* The session-state defaults (lines 19-32), nothing on screen yet.
Defaults ==
    [page |-> "mission", mission |-> None, budget |-> 0, cart |-> <<>>,
     reason |-> <<>>, shown |-> None, widgets |-> {}, radio |-> 1,
     ta_value |-> <<>>, download |-> NoFile,
     disk |-> [t \in {0} |-> NoFile], notices |-> {}]

Load == [w |-> "load", arg |-> 0]

\* The state after the first run of the script in a new session.
Init ==
    /\ catalog \in Catalogs
    /\ now = 0
    /\ event = Load
    /\ sessions = <<>>
    /\ LET s == main(Defaults, Load, catalog, now)
       IN  /\ page = s.page
           /\ mission = s.mission
           /\ budget = s.budget
           /\ cart = s.cart
           /\ reason = s.reason
           /\ shown = s.shown
           /\ widgets = s.widgets
           /\ radio = s.radio
           /\ ta_value = s.ta_value
           /\ download = s.download
           /\ disk = s.disk
           /\ notices = s.notices

\* One run of the script, started by the interaction ev with a widget on screen.
Rerun(ev) ==
    /\ [w |-> ev.w, arg |-> IF ev.w = "add" THEN ev.arg ELSE 0] \in widgets
    /\ event' = ev
    /\ LET s == main(World, ev, catalog, now)
       IN  /\ page' = s.page
           /\ mission' = s.mission
           /\ budget' = s.budget
           /\ cart' = s.cart
           /\ reason' = s.reason
           /\ shown' = s.shown
           /\ widgets' = s.widgets
           /\ radio' = s.radio
           /\ ta_value' = s.ta_value
           /\ download' = s.download
           /\ disk' = s.disk
           /\ notices' = s.notices
    /\ UNCHANGED <<catalog, now, sessions>>

\* ---------------------------------------------------------- user actions

\* The user picks another option of the radio.
SelectMission ==
    \E m \in 1..Len(MissionLabels) :
        m # radio /\ Rerun([w |-> "radio", arg |-> m])

ConfirmMission ==
    /\ W("confirm") \in widgets
    /\ Rerun(W("confirm"))

AddItem ==
    \E i \in 0..1 : Len(cart) < MaxCart /\ Rerun(AddButton(i))

BackToMission ==
    /\ W("back_mission") \in widgets
    /\ Rerun(W("back_mission"))

ProceedToResult ==
    /\ W("proceed") \in widgets
    /\ Rerun(W("proceed"))

\* The user changes the text of the justification box.
EditReason ==
    \E k \in 1..Len(ReasonTexts) :
        ReasonTexts[k] # reason /\ Rerun([w |-> "text_area", arg |-> k])

BackToShop ==
    /\ W("back_shop") \in widgets
    /\ Rerun(W("back_shop"))

Submit ==
    /\ W("submit") \in widgets
    /\ Rerun(W("submit"))

Download ==
    /\ W("download") \in widgets
    /\ Rerun(W("download"))

\* ------------------------------------------------------------ environment

\* A second passes.  The file name is the clock's second, and the clock does
\* not go back: a file saved under an earlier second is never written or
\* opened again, so the directory is kept for the name of the current second.
Tick ==
    /\ now < MaxClock
    /\ now' = now + 1
    /\ disk' = [t \in {now + 1} |-> NoFile]
    /\ UNCHANGED <<page, mission, budget, cart, reason, shown, widgets, radio,
                   ta_value, download, catalog, event, notices, sessions>>

Next ==
    \/ SelectMission
    \/ ConfirmMission
    \/ AddItem
    \/ BackToMission
    \/ ProceedToResult
    \/ EditReason
    \/ BackToShop
    \/ Submit
    \/ Download
    \/ Tick

Spec == Init /\ [][Next]_vars

\* ------------------------------------------- the handlers on any session

\* The buttons of the two guards (lines 181 and 281).
ReturnToMissionFromShop ==
    /\ W("guard_shop") \in widgets
    /\ Rerun(W("guard_shop"))

GoToMissionFromResult ==
    /\ W("guard_result") \in widgets
    /\ Rerun(W("guard_result"))

\* The first run of the script on a session record drawn from bounded sets:
\* any screen name, a mission or none, a cart, a justification.
InitHandlers ==
    /\ catalog \in Catalogs
    /\ now = 0
    /\ event = Load
    /\ sessions = <<>>
    /\ \E p \in {"mission", "shop", "result", "unknown"},
          m \in {None, "saving_10000", "balanced_20000", "plentiful_30000"},
          c \in {<<>>, <<[name |-> "Milk", price |-> 12000, image_url |-> None]>>},
          r \in {ReasonTexts[k] : k \in 1..Len(ReasonTexts)} \cup {LongReason} :
        LET b == IF m = None THEN 0 ELSE MISSIONS[m]
            s == main([Defaults EXCEPT !.page = p, !.mission = m, !.budget = b,
                                       !.cart = c, !.reason = r],
                      Load, catalog, now)
        IN  /\ page = s.page
            /\ mission = s.mission
            /\ budget = s.budget
            /\ cart = s.cart
            /\ reason = s.reason
            /\ shown = s.shown
            /\ widgets = s.widgets
            /\ radio = s.radio
            /\ ta_value = s.ta_value
            /\ download = s.download
            /\ disk = s.disk
            /\ notices = s.notices

NextHandlers ==
    \/ Next
    \/ ReturnToMissionFromShop
    \/ GoToMissionFromResult

SpecHandlers == InitHandlers /\ [][NextHandlers]_vars

\* ------------------------------------------- several sessions, one process

\* Streamlit runs every session's script in a thread of one server process;
\* the sessions share the submissions directory and the clock.  The submit
\* handler (lines 320-340) of a session writes the image file inside
\* create_submission_png and afterwards opens the returned path to read the
\* bytes back; steps of other sessions can fall between the two.  Each of the
\* two steps is taken as one step here.

\* A session on the result screen with its mission, cart and justification,
\* before its submit: no file written, nothing to download.
Session(m, c, r) ==
    [mission |-> m, budget |-> MISSIONS[m], cart |-> c, reason |-> r,
     pc |-> "result", filepath |-> 0, png_bytes |-> NoFile]

SessionCarts ==
    { << [name |-> "Milk", price |-> 12000, image_url |-> None] >>,
      << [name |-> "Milk", price |-> 12000, image_url |-> None],
         [name |-> "Apple", price |-> 6000, image_url |-> "apple.png"] >> }

InitSessions ==
    /\ catalog = [exists |-> FALSE, columns |-> {}, rows |-> <<>>]
    /\ now = 0
    /\ event = Load
    /\ page = Defaults.page
    /\ mission = Defaults.mission
    /\ budget = Defaults.budget
    /\ cart = Defaults.cart
    /\ reason = Defaults.reason
    /\ shown = Defaults.shown
    /\ widgets = Defaults.widgets
    /\ radio = Defaults.radio
    /\ ta_value = Defaults.ta_value
    /\ download = Defaults.download
    /\ notices = Defaults.notices
    /\ disk = [t \in 0..MaxClock |-> NoFile]
    /\ sessions \in [1..MaxSessions ->
                       {Session(m, c, <<" ", "a">>) :
                           m \in {"saving_10000", "balanced_20000"},
                           c \in SessionCarts}]

\* Session i's submit click, up to the return of create_submission_png
\* (lines 320-330, 137-144): the image of its own session state is saved
\* under the name of the current second.
WriteFile(i) ==
    /\ sessions[i].pc \in {"result", "offered"}
    /\ LET s == sessions[i]
           sub == create_submission_png(s.mission, s.budget, s.cart,
                                        s.reason, now)
       IN  /\ disk' = [disk EXCEPT ![sub.filepath] = sub.img]
           /\ sessions' = [sessions EXCEPT ![i].pc = "saved",
                                           ![i].filepath = sub.filepath,
                                           ![i].png_bytes = NoFile]
    /\ UNCHANGED <<page, mission, budget, cart, reason, shown, widgets, radio,
                   ta_value, download, catalog, now, event, notices>>

\* Session i opens the path it was given and hands the bytes it reads to
\* its download button (lines 331-340).
ReadFileBack(i) ==
    /\ sessions[i].pc = "saved"
    /\ sessions' = [sessions EXCEPT
                       ![i].pc = "offered",
                       ![i].png_bytes = disk[sessions[i].filepath]]
    /\ UNCHANGED <<page, mission, budget, cart, reason, shown, widgets, radio,
                   ta_value, download, disk, catalog, now, event, notices>>

\* A second passes; the files saved so far stay in the directory.
ClockTick ==
    /\ now < MaxClock
    /\ now' = now + 1
    /\ UNCHANGED <<page, mission, budget, cart, reason, shown, widgets, radio,
                   ta_value, download, disk, catalog, event, notices, sessions>>

SubmitWrite == \E i \in DOMAIN sessions : WriteFile(i)

SubmitReadBack == \E i \in DOMAIN sessions : ReadFileBack(i)

NextSessions ==
    \/ SubmitWrite
    \/ SubmitReadBack
    \/ ClockTick

SpecSessions == InitSessions /\ [][NextSessions]_vars

\* ================================================================ claims

\* The step is one run of the script started by a widget of the given kind
\* (the clock's step is the only other one).
RunOf(kind) == now' = now /\ event'.w = kind

\* The arithmetic sum of the price fields of the entries of a cart, taken in
\* no particular order.
RECURSIVE SumOver(_, _)
SumOver(c, S) ==
    IF S = {} THEN 0
    ELSE LET i == CHOOSE j \in S : TRUE
         IN  c[i].price + SumOver(c, S \ {i})

SumOfPrices(c) == SumOver(c, DOMAIN c)

\* Every character of the text is whitespace (the empty text included).
AllWhitespace(t) == \A i \in 1..Len(t) : t[i] \in {" ", "\n", "\t"}

\* The amount the mission table of the specification gives a label.
ConfiguredAmount(m) ==
    CASE m = "saving_10000" -> 10000
      [] m = "balanced_20000" -> 20000
      [] m = "plentiful_30000" -> 30000

\* C1: a confirm click handled by the mission screen sets selected_mission to
\* the label chosen in the radio, budget to the amount configured for that
\* label (10000, 20000 or 30000) and current_screen to shop, whatever the
\* session state was.
C1_ConfirmSetsMissionBudgetShop ==
    [][(RunOf("confirm") /\ page = "mission")
        => /\ mission' = MissionLabels[radio]
           /\ budget' = ConfiguredAmount(MissionLabels[radio])
           /\ page' = "shop"]_vars

\* C1 witness: the third mission confirmed in a session that already holds a
\* cart and a justification.
C1_Witness ==
    /\ event.w = "confirm"
    /\ page = "shop"
    /\ mission = "plentiful_30000"
    /\ budget = 30000
    /\ cart # <<>>
    /\ reason # <<>>

\* C2: a proceed click on the shop screen with an empty cart leaves
\* current_screen at shop and selected_mission, budget, cart and justification
\* as they were; current_screen goes from shop to result only with a cart of
\* at least one item.
C2_EmptyCartBlocksResult ==
    [][/\ (RunOf("proceed") /\ page = "shop" /\ cart = <<>>)
          => (page' = "shop" /\ UNCHANGED <<mission, budget, cart, reason>>)
       /\ (page = "shop" /\ page' = "result") => Len(cart) >= 1]_vars

\* C2 witness: the shop screen has just refused a proceed click on an empty cart.
C2_Witness ==
    /\ event.w = "proceed"
    /\ shown = "shop"
    /\ page = "shop"
    /\ cart = <<>>
    /\ W("proceed") \in widgets

\* C3: a submit click on the result screen with an empty or whitespace-only
\* justification writes no file, offers no download, leaves current_screen at
\* result and the rest of the session as it was; a file is written only in a
\* run whose justification has a character that is not whitespace.
C3_BlankReasonBlocksSubmit ==
    [][/\ (RunOf("submit") /\ page = "result" /\ AllWhitespace(reason))
          => /\ disk' = disk
             /\ download' = NoFile
             /\ page' = "result"
             /\ UNCHANGED <<mission, budget, cart, reason>>
       /\ (now' = now /\ disk' # disk) => ~AllWhitespace(reason')]_vars

\* C3 witness: a submit click with a justification of a space and a line
\* break has been refused.
C3_Witness ==
    /\ event.w = "submit"
    /\ shown = "result"
    /\ page = "result"
    /\ reason = <<" ", "\n">>
    /\ disk[now] = NoFile
    /\ download = NoFile

\* C4: calc_cart_total of the cart is the arithmetic sum of the prices of its
\* entries in any order, 0 for the empty cart, and each entry an add click
\* appends raises it by exactly that entry's price, a repeated product too.
C4_TotalIsSumOfAppended ==
    /\ [](/\ calc_cart_total(cart) = SumOfPrices(cart)
          /\ (cart = <<>> => calc_cart_total(cart) = 0))
    /\ [][Len(cart') = Len(cart) + 1
          => calc_cart_total(cart') =
                 calc_cart_total(cart) + cart'[Len(cart')].price]_vars

\* C4 witness: the same product added twice, the total twice its price.
C4_Witness ==
    /\ Len(cart) = 2
    /\ cart[1].name = cart[2].name
    /\ cart[1].price = 6000
    /\ calc_cart_total(cart) = 12000

NavigationWidgets ==
    {W("confirm"), W("back_mission"), W("proceed"), W("back_shop"),
     W("guard_shop"), W("guard_result")}

\* C5: in every reachable state the user is offered at least one navigation
\* action (the screen machine has no terminal state).
C5_NavigationAlwaysOffered == widgets \cap NavigationWidgets # {}

\* C6: budget is never negative, it is the configured amount of the selected
\* mission whenever one is selected, and budget and selected_mission change
\* only in a confirm click handled by the mission screen.
C6_BudgetFixedByMission ==
    /\ [](/\ budget >= 0
          /\ (mission # None => budget = ConfiguredAmount(mission)))
    /\ [][(budget' # budget \/ mission' # mission)
          => (RunOf("confirm") /\ page = "mission")]_vars

\* C6 witness: after shopping over budget, writing a justification and
\* submitting, the budget is still that of the second mission.
C6_Witness ==
    /\ event.w = "submit"
    /\ mission = "balanced_20000"
    /\ budget = 20000
    /\ SumOfPrices(cart) > budget
    /\ download # NoFile

\* C7: over budget blocks nothing.  A shop screen rendered to its end offers
\* the add button of every row and every add click the shop screen handles
\* appends one entry, whatever the total; a proceed click with a total above
\* budget moves to result, and a submit click with a total above budget and a
\* justification that is not blank saves the image and offers it.
C7_OverBudgetNeverBlocks ==
    /\ [](W("proceed") \in widgets
          => \A i \in 1..Len(catalog.rows) : AddButton(i - 1) \in widgets)
    /\ [][/\ (RunOf("add") /\ page = "shop") => Len(cart') = Len(cart) + 1
          /\ (RunOf("proceed") /\ page = "shop" /\ SumOfPrices(cart) > budget)
             => page' = "result"
          /\ (RunOf("submit") /\ page = "result" /\ SumOfPrices(cart) > budget
              /\ ~AllWhitespace(reason))
             => (disk'[now] # NoFile /\ download' = disk'[now])]_vars

\* C7 witness: the first item alone was over budget, a second was added,
\* and the submission went through.
C7_Witness ==
    /\ event.w = "submit"
    /\ Len(cart) = 2
    /\ cart[1].price > budget
    /\ page = "result"
    /\ download # NoFile
    /\ download = disk[now]

\* C8: a handled add click extends the cart by one entry at its end and keeps
\* the entries before it; every other step leaves the cart as it is.
C8_CartAppendOnly ==
    [][IF RunOf("add") /\ page = "shop"
       THEN /\ Len(cart') = Len(cart) + 1
            /\ SubSeq(cart', 1, Len(cart)) = cart
       ELSE cart' = cart]_vars

\* C8 witness: a cart holding the same product twice has survived the way
\* back to the mission screen and the confirmation of another mission.
C8_Witness ==
    /\ event.w = "confirm"
    /\ mission = "balanced_20000"
    /\ Len(cart) = 2
    /\ cart[1].name = cart[2].name
    /\ reason # <<>>

\* C9: with selected_mission unset, a run of the shop or result screen offers
\* one widget only, the button back to the mission screen; the run changes
\* nothing of the session but current_screen, which that button sets to
\* mission.
C9_GuardOffersOnlyMission ==
    /\ []((mission = None /\ shown \in {"shop", "result"})
          => (/\ widgets \in {{W("guard_shop")}, {W("guard_result")}}
              /\ Cardinality(widgets) = 1))
    /\ [][(mission = None /\ page \in {"shop", "result"} /\ now' = now)
          => /\ UNCHANGED <<mission, budget, cart, reason, disk>>
             /\ download' = NoFile
             /\ page' = IF event'.w \in {"guard_shop", "guard_result"}
                        THEN "mission" ELSE page]_vars

\* C9 witness: the shop guard's button has been pressed in a session that
\* holds a cart and no mission.
C9_Witness ==
    /\ event.w = "guard_shop"
    /\ shown = "shop"
    /\ page = "mission"
    /\ mission = None
    /\ cart # <<>>

\* C10: the back click of the shop screen sets current_screen to mission and
\* the back click of the result screen sets it to shop; neither changes
\* selected_mission, budget, cart or justification.
C10_BackChangesOnlyScreen ==
    [][/\ (RunOf("back_mission") /\ page = "shop")
          => (page' = "mission" /\ UNCHANGED <<mission, budget, cart, reason>>)
       /\ (RunOf("back_shop") /\ page = "result")
          => (page' = "shop" /\ UNCHANGED <<mission, budget, cart, reason>>)]_vars

\* C10 witness: back from result and then back from shop, the cart and the
\* justification still there.
C10_Witness ==
    /\ event.w = "back_mission"
    /\ page = "mission"
    /\ mission # None
    /\ cart # <<>>
    /\ reason # <<>>

\* The last run rendered the cart section of the shop or the result screen.
CartSectionShown ==
    \/ (shown = "shop" /\ W("proceed") \in widgets)
    \/ (shown = "result" /\ W("submit") \in widgets)

\* The remaining-budget boxes on screen.
Indications == {x \in notices : x.n \in {"remaining", "over_budget"}}

OneItem(p) == <<[name |-> "x", price |-> p, image_url |-> None]>>

\* C11 as stated: wherever the cart section is rendered, for every budget and
\* total, the indication is the over-budget warning citing total - budget when
\* total > budget and otherwise the confirmation citing budget - total.
C11_IndicationForEveryTotal ==
    CartSectionShown
    => Indications =
           IF SumOfPrices(cart) > budget
           THEN {Notice("over_budget", SumOfPrices(cart) - budget)}
           ELSE {Notice("remaining", budget - SumOfPrices(cart))}

\* C11 amended: wherever the cart section is rendered with a cart that is not
\* empty, the only indication is the over-budget warning citing
\* total - budget when total > budget, and otherwise the confirmation citing
\* budget - total, which is then >= 0 (12000 against 10000: overrun 2000; 8000
\* against 10000: remaining 2000); with an empty cart there is no indication.
C11_IndicationForNonEmptyCart ==
    /\ cart_summary(OneItem(12000), 10000) = {Notice("over_budget", 2000)}
    /\ cart_summary(OneItem(8000), 10000) = {Notice("remaining", 2000)}
    /\ CartSectionShown
       => Indications =
              IF cart = <<>> THEN {}
              ELSE IF SumOfPrices(cart) > budget
              THEN {Notice("over_budget", SumOfPrices(cart) - budget)}
              ELSE {Notice("remaining", budget - SumOfPrices(cart))}
    /\ \A x \in Indications : x.amount >= 0

\* C11 witness: the result screen shows an overrun of 2000 for a total of
\* 12000 against a budget of 10000.
C11_Witness ==
    /\ shown = "result"
    /\ W("submit") \in widgets
    /\ budget = 10000
    /\ SumOfPrices(cart) = 12000
    /\ Indications = {Notice("over_budget", 2000)}

\* products.csv is there, has rows and has a name and a price column.
CatalogLoads ==
    /\ catalog.exists
    /\ catalog.rows # <<>>
    /\ catalog.columns \cap {"pummyeong", "name"} # {}
    /\ catalog.columns \cap {"gagyeok", "price"} # {}

\* The price cell of row i (from 1) of the catalog.
PriceCell(i) ==
    catalog.rows[i][IF "gagyeok" \in catalog.columns THEN "gagyeok" ELSE "price"]

\* The cell is no number: a text float() rejects, or an empty or N/A cell.
Unparseable(cell) == cell.kind # "num"

\* C12: whatever rows have a price that is no number, the shop screen renders
\* every row of the catalog with its add button; adding such a row appends an
\* entry of price 0 and leaves the total as it was, and adding any other row
\* appends an entry with that row's own price.
C12_UnparseablePriceRecovered ==
    /\ []((shown = "shop" /\ mission # None /\ CatalogLoads)
          => \A i \in 1..Len(catalog.rows) : AddButton(i - 1) \in widgets)
    /\ [][(RunOf("add") /\ page = "shop" /\ CatalogLoads)
          => /\ Len(cart') = Len(cart) + 1
             /\ cart'[Len(cart')].price =
                    IF Unparseable(PriceCell(event'.arg + 1)) THEN 0
                    ELSE PriceCell(event'.arg + 1).val
             /\ Unparseable(PriceCell(event'.arg + 1))
                => SumOfPrices(cart') = SumOfPrices(cart)]_vars

\* The name cell of row i (from 1) of the catalog.
NameCell(i) ==
    catalog.rows[i][IF "pummyeong" \in catalog.columns THEN "pummyeong"
                    ELSE "name"]

\* products.csv has rows and lacks both spellings of the name column or both
\* spellings of the price column.
RequiredColumnMissing ==
    /\ catalog.exists
    /\ catalog.rows # <<>>
    /\ \/ catalog.columns \cap {"pummyeong", "name"} = {}
       \/ catalog.columns \cap {"gagyeok", "price"} = {}

AddButtonsShown == {x \in widgets : x.w = "add"}

\* C13: with neither spelling of a required column the shop run stops with
\* the missing-column error, offers no add button and leaves the cart as it
\* was; with a spelling of each required column it does not stop and offers
\* every row of the catalog, button idx adding row idx.
C13_MissingColumnHalts ==
    /\ []((shown = "shop" /\ mission # None /\ RequiredColumnMissing)
          => /\ Notice("missing_column", 0) \in notices
             /\ AddButtonsShown = {})
    /\ []((shown = "shop" /\ mission # None /\ CatalogLoads)
          => /\ Notice("missing_column", 0) \notin notices
             /\ AddButtonsShown =
                    {AddButton(i - 1) : i \in 1..Len(catalog.rows)})
    /\ [][/\ (page = "shop" /\ RequiredColumnMissing /\ now' = now)
             => cart' = cart
          /\ (RunOf("add") /\ page = "shop" /\ CatalogLoads)
             => /\ Len(cart') = Len(cart) + 1
                /\ cart'[Len(cart')].name = NameCell(event'.arg + 1)]_vars

\* C14: with products.csv absent a run of the shop screen reads an empty
\* catalog, shows the file-not-found notice and no add button, and leaves
\* current_screen, selected_mission, budget, cart and justification as they
\* were.
C14_MissingFileRecovered ==
    /\ []((shown = "shop" /\ mission # None /\ ~catalog.exists)
          => /\ load_products(catalog).rows = <<>>
             /\ Notice("file_not_found", 0) \in notices
             /\ AddButtonsShown = {})
    /\ [][(page = "shop" /\ ~catalog.exists /\ now' = now)
          => UNCHANGED <<page, mission, budget, cart, reason>>]_vars

\* C14 witness: the shop screen has been rendered for a chosen mission with
\* the file absent.
C14_Witness ==
    /\ shown = "shop"
    /\ page = "shop"
    /\ mission = "balanced_20000"
    /\ budget = 20000
    /\ ~catalog.exists
    /\ Notice("file_not_found", 0) \in notices

Max(a, b) == IF a > b THEN a ELSE b

\* The image img is laid out for mission m, budget b and cart c with J
\* justification lines: the lines in the fixed order, the canvas size, and
\* every line drawn inside the canvas.
RenderedAsClaimed(img, m, b, c, J) ==
    LET lines == img.lines
        L == Len(lines)
        k == Max(1, Len(c))
    IN  /\ L = 6 + k + J
        /\ lines[1] = Line("mission", m, 0, <<>>)
        /\ lines[2] = Line("budget", "", b, <<>>)
        /\ lines[3] = BlankLine
        /\ lines[4] = Line("items_header", "", 0, <<>>)
        /\ IF c = <<>> THEN lines[5] = Line("no_items", "", 0, <<>>)
           ELSE \A i \in 1..Len(c) :
                    lines[4 + i] = Line("item", c[i].name, c[i].price, <<>>)
        /\ lines[5 + k] = BlankLine
        /\ lines[6 + k] = Line("reason_header", "", 0, <<>>)
        /\ \A i \in (7 + k)..L : lines[i].kind \in {"text", "blank"}
        /\ img.width = 800
        /\ img.height = 80 + 30 * (L + 3)
        /\ DOMAIN img.ys = 1..L
        /\ \A i \in 1..L : /\ img.ys[i] = 40 + 30 * (i - 1)
                           /\ img.ys[i] >= 0
                           /\ img.ys[i] < img.height

\* The number of justification lines of the texts of the model, counted by
\* hand: LongReason is wrapped to two lines, followed by a blank line and
\* one line of text.
JustificationLines(text) ==
    CASE text = LongReason -> 4
      [] text = <<" ", "\n">> -> 2
      [] OTHER -> 1

TwoItems ==
    << [name |-> "Milk", price |-> 12000, image_url |-> None],
       [name |-> "Apple", price |-> 6000, image_url |-> "apple.png"] >>

\* C15: the renderer's lines come in the fixed order (mission, budget, blank,
\* items header, one line per cart item in purchase order or the placeholder
\* for an empty cart, blank, justification header, justification lines), so
\* an image of n items and J justification lines has 6 + max(1, n) + J
\* lines; the canvas is 800 wide and 80 + 30 * (lines + 3) high, and line i
\* is drawn at offset 40 + 30 * i, inside the canvas.  Checked for every
\* image a submit saves, and for the renderer applied to carts of zero to
\* two items with each text.
C15_RendererLayout ==
    /\ \A c \in {<<>>, OneItem(8000), TwoItems},
          text \in {ReasonTexts[k] : k \in 1..Len(ReasonTexts)} \cup {LongReason} :
           RenderedAsClaimed(
               create_submission_png("saving_10000", 10000, c, text, 0).img,
               "saving_10000", 10000, c, JustificationLines(text))
    /\ [][(RunOf("submit") /\ download' # NoFile)
          => RenderedAsClaimed(download', mission, budget, cart,
                               JustificationLines(reason'))]_vars

\* C15 witness: a saved image of an empty cart and the long justification:
\* the placeholder line and four justification lines, eleven lines in all.
C15_Witness ==
    /\ download # NoFile
    /\ cart = <<>>
    /\ reason = LongReason
    /\ Len(download.lines) = 11
    /\ download.lines[5].kind = "no_items"
    /\ download.lines[8].chars = [i \in 1..20 |-> "a"] \o <<" ">> \o [i \in 1..9 |-> "a"]
    /\ download.lines[9].chars = [i \in 1..26 |-> "a"]
    /\ download.height = 500
    /\ download.ys[11] = 340

\* C16: after every processed user action the view on screen is the view of
\* the current value of current_screen, with that screen's controls and
\* none of the screen that was left.
C16_ViewIsCurrentScreen ==
    /\ shown = page
    /\ (W("confirm") \in widgets \/ W("radio") \in widgets) => page = "mission"
    /\ (W("proceed") \in widgets \/ W("back_mission") \in widgets)
       => page = "shop"
    /\ (W("submit") \in widgets \/ W("back_shop") \in widgets)
       => page = "result"

\* C17: in every state reached by user actions current_screen is mission,
\* shop or result (the fallback of main is not taken), a session on shop or
\* result has its mission set (no missing-mission guard is shown), and a
\* mission once chosen is never unset.
C17_MissionSetBeyondFirstScreen ==
    /\ [](/\ page \in {"mission", "shop", "result"}
          /\ page \in {"shop", "result"} => mission # None
          /\ mission # None => budget = MISSIONS[mission]
          /\ W("guard_shop") \notin widgets
          /\ W("guard_result") \notin widgets
          /\ Notice("select_mission_first", 0) \notin notices)
    /\ [][mission # None => mission' # None]_vars

\* C17 witness: a session back on the mission screen after a visit to the
\* result screen, its mission still set.
C17_Witness ==
    /\ page = "mission"
    /\ shown = "mission"
    /\ mission = "plentiful_30000"
    /\ cart # <<>>
    /\ reason = <<" ", "a">>

\* The images a session has saved or been handed.
Submissions ==
    ({disk[t] : t \in DOMAIN disk} \cup {download}) \ {NoFile}

\* C18: a session on the result screen has a non-empty cart, so every
\* submission lists at least one purchased item and never the placeholder
\* line of an empty cart.
C18_SubmissionListsAnItem ==
    /\ page = "result" => cart # <<>>
    /\ \A img \in Submissions :
           /\ \E i \in 1..Len(img.lines) : img.lines[i].kind = "item"
           /\ \A i \in 1..Len(img.lines) : img.lines[i].kind # "no_items"

\* C18 witness: a submission of two purchases has been saved and offered.
C18_Witness ==
    /\ page = "result"
    /\ Len(cart) = 2
    /\ download # NoFile
    /\ download \in Submissions
    /\ download.lines[5] = Line("item", cart[1].name, cart[1].price, <<>>)
    /\ download.lines[6] = Line("item", cart[2].name, cart[2].price, <<>>)

\* C19: with several sessions submitting in one process, the bytes a session
\* offers for download after its submit are the image rendered from that
\* session's own mission, budget, cart and justification, whatever the
\* interleaving of the sessions' write and read-back steps, submissions
\* within the same second included.
C19_DownloadIsOwnImage ==
    \A i \in DOMAIN sessions :
        sessions[i].pc = "offered"
        => sessions[i].png_bytes =
               create_submission_png(sessions[i].mission, sessions[i].budget,
                                     sessions[i].cart, sessions[i].reason,
                                     sessions[i].filepath).img

====
